---- MODULE Spec2Model ----
(***************************************************************************)
(* A model of nitro_redeemer.py: the ErrorHandler response classifier, the *)
(* NitroRedeemer.redeem_code coroutine (run as several overlapping asyncio *)
(* tasks on one event loop) and the find_codes extractor.                  *)
(*                                                                         *)
(* asyncio runs one task at a time and switches tasks only at an await     *)
(* that really suspends, so every action below is the synchronous stretch  *)
(* of redeem_code between two such awaits.                                 *)
(***************************************************************************)
EXTENDS Integers, Sequences, FiniteSets, TLC

\* ------------------------------------------------------------------ bounds
MaxCalls == 3      \* redeem_code invocations in one behaviour
MaxInFlight == 2   \* invocations with a request outstanding at one time
MaxCodes == 3      \* distinct gift codes
MaxTokens == 2     \* size of the token pool handed to __init__
MaxTime == 2       \* the clock stops ticking here
MaxDelay == 2      \* retry_after values range over 0..MaxDelay
MaxBodyLen == 4    \* fragments in a response text handed to handle_errors
MaxParts == 2      \* pieces in a text handed to find_codes

\* ------------------------------------------------------- Responses (8-41)
RATE_LIMITED == "RATE_LIMITED"
INVALID_GIFT == "INVALID_GIFT"
ALREADY_CLAIMED == "ALREADY_CLAIMED"
NO_PAYMENT_SOURCE == "NO_PAYMENT_SOURCE"
ALREADY_PURCHASED == "ALREADY_PURCHASED"
ACCESS_DENIED == "ACCESS_DENIED"
NOT_VERIFIED == "NOT_VERIFIED"
CLAIMED == "CLAIMED"
IN_CACHE == "IN_CACHE"

Responses ==
    {RATE_LIMITED, INVALID_GIFT, ALREADY_CLAIMED, NO_PAYMENT_SOURCE,
     ALREADY_PURCHASED, ACCESS_DENIED, NOT_VERIFIED, CLAIMED, IN_CACHE}

\* Python's None
None == "None"

\* ------------------------------------------------- ErrorHandler (44-76)
\* A response text is a sequence of fragments.  Each JSON error body of the
\* table is two fragments (its message part and its code part, the way the
\* source splits the literals), each plain-text marker is one fragment.
error_responses ==
    << [error |-> <<"{message: Unknown Gift Code,", " code: 10038}">>,
        response |-> INVALID_GIFT],
       [error |-> <<"{message: This gift has been redeemed already.,", " code: 50050}">>,
        response |-> ALREADY_CLAIMED],
       [error |-> <<"{message: Payment source required to redeem gift.,", " code: 50070}">>,
        response |-> NO_PAYMENT_SOURCE],
       [error |-> <<"{message: Already purchased,", " code: 100011}">>,
        response |-> ALREADY_PURCHASED],
       [error |-> <<"{message: You need to verify your account in order to perform this action.,",
                    " code: 40002}">>,
        response |-> NOT_VERIFIED],
       [error |-> <<"You are being rate limited">>, response |-> RATE_LIMITED],
       [error |-> <<"Access denied">>, response |-> ACCESS_DENIED] >>

\* Python's `error in response_text` on strings: error occurs as a contiguous
\* run of response_text.
StrIn(error, response_text) ==
    \E i \in 1..(Len(response_text) - Len(error) + 1) :
        SubSeq(response_text, i, i + Len(error) - 1) = error

RECURSIVE HandleFromLast(_, _)
HandleFromLast(n, response_text) ==
    IF n > Len(error_responses) THEN CLAIMED
    ELSE IF HandleFromLast(n + 1, response_text) # CLAIMED
         THEN HandleFromLast(n + 1, response_text)
         ELSE IF StrIn(error_responses[n].error, response_text)
              THEN error_responses[n].response
              ELSE CLAIMED

\* The for loop of handle_errors from table entry n on.
RECURSIVE HandleFrom(_, _)
HandleFrom(n, response_text) ==
    IF n > Len(error_responses) THEN CLAIMED
    ELSE IF StrIn(error_responses[n].error, response_text)
         THEN error_responses[n].response
         ELSE HandleFrom(n + 1, response_text)

handle_errors(response_text) == HandleFrom(1, response_text)

\* ------------------------------------------------------------------ state
VARIABLES
    tokens,        \* self.tokens: dict token -> payment id, in insertion order
    cache,         \* self.cache: dict code -> Responses
    rate_limits,   \* self.rate_limits
    data,          \* self.data: latency samples
    now,           \* time.time()
    call,          \* the frame of each redeem_code invocation
    result,        \* what each invocation returned
    issued,        \* history: the tokens of the requests each invocation posted
    log,           \* history: NOT_VERIFIED tokens, latest end of a recorded backoff,
                   \* the retry_after read last
    input,         \* the argument of a pure function under test
    output         \* its return value

vars ==
    <<tokens, cache, rate_limits, data, now, call, result, issued, log, input, output>>

Calls == 1..MaxCalls
CodeNames == <<"c1", "c2", "c3", "c4">>
Codes == {CodeNames[n] : n \in 1..MaxCodes}
TokenNames == <<"t1", "t2", "t3", "t4">>
PaymentIds == {None, "pm_1"}
Delays == 0..MaxDelay

\* The bodies the API answers with in the engine's runs: one per table entry
\* and an unrecognised one.
ApiBodies ==
    {error_responses[n].error : n \in 1..Len(error_responses)} \cup {<<"{}">>}

\* request.json()['retry_after'] (169-172) is read only from a rate-limit
\* body; for any other body it plays no part.
RetryAfter(response_text) ==
    IF handle_errors(response_text) = RATE_LIMITED THEN Delays ELSE {0}

\* time.time() at construction is far past rate_timestamp = 0.
StartTime == 1

NoFrame ==
    [pc |-> "idle", code |-> None, snapshot |-> <<>>, i |-> 0,
     payment_required |-> FALSE, response |-> None, token |-> None, start |-> 0,
     heard |-> {}, stop |-> None, hit_at |-> 0]

NoResult == [token |-> None, response |-> None]

\* A pure function under test has not returned yet.
NoOutput == [returned |-> FALSE, value |-> None]
Output(v) == [returned |-> TRUE, value |-> v]

\* dict helpers over an insertion-ordered dict of [key, value] entries
listReversed(pool) == [n \in 1..Len(pool) |-> pool[Len(pool) + 1 - n].token]

\* list(self.tokens) (119): the keys in insertion order
list(pool) == [n \in 1..Len(pool) |-> pool[n].token]
HasKey(pool, t) == \E n \in 1..Len(pool) : pool[n].token = t
GetItem(pool, t) == pool[CHOOSE n \in 1..Len(pool) : pool[n].token = t].payment_id

DelItemFirst(pool, t) == Tail(pool)

DelItemKeeps(pool, t) == pool

\* del self.tokens[token] (166), on a key that is present
DelItem(pool, t) == SelectSeq(pool, LAMBDA e : e.token # t)

SetItemOnce(c, code, response) == IF code \in DOMAIN c THEN c ELSE (code :> response) @@ c

SetItemLost(c, code, response) == IF code \in DOMAIN c THEN (code :> response) @@ c ELSE c

\* self.cache[code] = response (116, 147)
SetItem(c, code, response) == (code :> response) @@ c

ContainsSettled(c, code) == code \in DOMAIN c /\ c[code] # RATE_LIMITED

ContainsNever(c, code) == FALSE

\* code in self.cache (111)
Contains(c, code) == code \in DOMAIN c

BackoffNever(limits, t) == FALSE

\* Line 124: the global backoff test
Backoff(limits, t) == (t - limits.rate_timestamp) <= limits.rate_delay

BreaksLate(response) == response \in {ALREADY_CLAIMED, CLAIMED, RATE_LIMITED}

\* The outcomes after which the loop is left (148-156, 168-173)
Breaks(response) == response \in {ALREADY_CLAIMED, CLAIMED, INVALID_GIFT, RATE_LIMITED}

SkipsNever(payment_required, payment_id) == FALSE

\* Line 121: a token without a payment source is passed over once one is required
Skips(payment_required, payment_id) == payment_required /\ payment_id = None

RateLimitSwapped(t, retry_after) == [rate_timestamp |-> retry_after, rate_delay |-> t]

RateLimitEpoch(t, retry_after) == [rate_timestamp |-> 0, rate_delay |-> retry_after]

\* Lines 171-172: the rate-limit record written on a RATE_LIMITED response
RateLimit(t, retry_after) == [rate_timestamp |-> t, rate_delay |-> retry_after]

\* Line 119: the for loop moves on to the next entry of its snapshot
NextIndex(i) == i + 1

InitialResponseUnset == None

\* Line 115: the outcome before any attempt
InitialResponse == RATE_LIMITED

\* __init__ (100-108): any pool of up to MaxTokens distinct tokens
Pools ==
    UNION {[1..n -> PaymentIds] : n \in 0..MaxTokens}

EngineInit ==
    /\ \E p \in Pools :
          tokens = [n \in DOMAIN p |-> [token |-> TokenNames[n], payment_id |-> p[n]]]
    /\ cache = <<>>
    /\ rate_limits = [rate_timestamp |-> 0, rate_delay |-> 0]
    /\ data = <<>>
    /\ now = StartTime
    /\ call = [k \in Calls |-> NoFrame]
    /\ result = [k \in Calls |-> NoResult]
    /\ issued = [k \in Calls |-> <<>>]
    /\ log = [not_verified |-> {}, until |-> 0, retry_after |-> 0]

Init ==
    /\ EngineInit
    /\ input = <<>>
    /\ output = NoOutput

\* ------------------------------------------------- redeem_code (110-175)
\* Lines 119-125: run the for loop from snapshot position i until it posts a
\* request, leaves the loop, or fails on self.tokens[token].
RECURSIVE Iterate(_, _, _, _, _, _, _)
Iterate(snapshot, i, token, payment_required, pool, limits, t) ==
    IF i > Len(snapshot)
    THEN [kind |-> "return", i |-> i, token |-> token, stop |-> "exhausted"]
    ELSE IF ~HasKey(pool, snapshot[i])
    THEN [kind |-> "KeyError", i |-> i, token |-> snapshot[i], stop |-> "KeyError"]
    ELSE IF Skips(payment_required, GetItem(pool, snapshot[i]))
    THEN Iterate(snapshot, NextIndex(i), snapshot[i], payment_required, pool, limits, t)
    ELSE IF Backoff(limits, t)
    THEN [kind |-> "return", i |-> i, token |-> snapshot[i], stop |-> "backoff"]
    ELSE [kind |-> "post", i |-> i, token |-> snapshot[i], stop |-> None]

\* A frame whose coroutine has ended: its locals are gone; the code, the
\* snapshot it iterated, the way it ended (f.stop) and the time of a cache
\* hit (f.hit_at) are kept for reference.
Left(pc, f) ==
    [NoFrame EXCEPT !.pc = pc, !.code = f.code, !.snapshot = f.snapshot,
                    !.stop = f.stop, !.hit_at = f.hit_at]

\* The frame, result and request history of invocation k after the loop ran
\* on from frame `frame` with outcome `ran` (each evaluated once).
Resume(k, frame, ran) ==
    \E f \in {frame} : \E r \in {ran} :
    /\ call' = [call EXCEPT ![k] =
          CASE r.kind = "post" ->
                  [f EXCEPT !.i = r.i, !.token = r.token, !.start = now,
                            !.pc = "await_post"]
            [] r.kind = "return" -> Left("done", [f EXCEPT !.stop = r.stop])
            [] OTHER -> Left("error", [f EXCEPT !.stop = r.stop])]
    /\ result' = IF r.kind = "return"
                 THEN [result EXCEPT ![k] = [token |-> r.token, response |-> f.response]]
                 ELSE result
    /\ issued' = IF r.kind = "post"
                 THEN [issued EXCEPT ![k] = Append(@, r.token)]
                 ELSE issued

\* Codes are interchangeable: they are named in the order of their first use.
Fresh(code) == \E n \in 1..MaxCodes :
                  /\ code = CodeNames[n]
                  /\ \A m \in 1..(n - 1) : CodeNames[m] \in DOMAIN cache

Started(k) == call[k].pc # "idle"
InFlight(k) == call[k].pc \in {"await_post", "await_text"}

\* Lines 110-143: the call up to its first await.
RedeemCode(k, code) ==
    /\ call[k].pc = "idle"
    /\ k > 1 => Started(k - 1)
    /\ Fresh(code)
    /\ Contains(cache, code) \/ Cardinality({j \in Calls : InFlight(j)}) < MaxInFlight
    /\ IF Contains(cache, code)
       THEN /\ call' = [call EXCEPT ![k] =
                           Left("done", [NoFrame EXCEPT !.code = code, !.stop = "hit",
                                                        !.hit_at = now])]
            /\ result' = [result EXCEPT ![k] = [token |-> None, response |-> IN_CACHE]]
            /\ UNCHANGED <<cache, issued>>
       ELSE /\ cache' = SetItem(cache, code, InitialResponse)
            /\ LET f == [NoFrame EXCEPT !.code = code, !.response = InitialResponse,
                                        !.snapshot = list(tokens)]
               IN Resume(k, f, Iterate(f.snapshot, 1, None, FALSE, tokens, rate_limits, now))
    /\ UNCHANGED <<tokens, rate_limits, data, now, log, input, output>>

\* Lines 141-146: session.post returned, the latency is recorded and the
\* coroutine waits for the body.
PostReturns(k) ==
    /\ call[k].pc = "await_post"
    /\ data' = Append(data, (now - call[k].start) * 1000)
    /\ call' = [call EXCEPT ![k].pc = "await_text"]
    /\ UNCHANGED <<tokens, cache, rate_limits, now, result, issued, log, input, output>>

\* Lines 146-175 and back to 119-143: the body arrived; classify, record,
\* dispatch, and run the loop on to the next await or to the return.
TextReturns(k, response_text, retry_after) ==
    /\ call[k].pc = "await_text"
    /\ \E response \in {handle_errors(response_text)} :
       LET f == [call[k] EXCEPT !.response = response,
                                !.heard = @ \cup {response},
                                !.payment_required =
                                    @ \/ response = NO_PAYMENT_SOURCE]
           missing == response = NOT_VERIFIED /\ ~HasKey(tokens, f.token)
       IN
       /\ cache' = SetItem(cache, f.code, response)
       /\ tokens' = IF response = NOT_VERIFIED /\ ~missing
                    THEN DelItem(tokens, f.token) ELSE tokens
       /\ rate_limits' = IF response = RATE_LIMITED
                         THEN RateLimit(now, retry_after)
                         ELSE rate_limits
       /\ log' = [not_verified |->
                     IF response = NOT_VERIFIED
                     THEN log.not_verified \cup {f.token} ELSE log.not_verified,
                  until |->
                     IF response = RATE_LIMITED /\ now + retry_after > log.until
                     THEN now + retry_after ELSE log.until,
                  retry_after |->
                     IF response = RATE_LIMITED THEN retry_after ELSE log.retry_after]
       /\ Resume(k, f,
             IF missing
             THEN [kind |-> "KeyError", i |-> f.i, token |-> f.token, stop |-> "KeyError"]
             ELSE IF Breaks(response)
             THEN [kind |-> "return", i |-> f.i, token |-> f.token, stop |-> "break"]
             ELSE Iterate(f.snapshot, NextIndex(f.i), f.token, f.payment_required,
                          tokens', rate_limits', now))
    /\ UNCHANGED <<data, now, input, output>>

\* The clock advances between any two steps.
Tick ==
    /\ now < MaxTime
    /\ now' = now + 1
    /\ UNCHANGED <<tokens, cache, rate_limits, data, call, result, issued, log,
                   input, output>>

Next ==
    \/ \E k \in Calls, code \in Codes : RedeemCode(k, code)
    \/ \E k \in Calls : PostReturns(k)
    \/ \E k \in Calls, response_text \in ApiBodies :
          \E retry_after \in RetryAfter(response_text) :
             TextReturns(k, response_text, retry_after)
    \/ Tick

Spec == Init /\ [][Next]_vars

\* ------------------------------------- handle_errors on its own (71-76)
Fragments ==
    UNION {{error_responses[n].error[m] : m \in 1..Len(error_responses[n].error)} :
             n \in 1..Len(error_responses)}
      \cup {"x"}

Bodies == UNION {[1..n -> Fragments] : n \in 0..MaxBodyLen}

\* An engine that is constructed and idle while a pure function is exercised.
IdleEngine ==
    /\ tokens = <<>>
    /\ cache = <<>>
    /\ rate_limits = [rate_timestamp |-> 0, rate_delay |-> 0]
    /\ data = <<>>
    /\ now = StartTime
    /\ call = [k \in Calls |-> NoFrame]
    /\ result = [k \in Calls |-> NoResult]
    /\ issued = [k \in Calls |-> <<>>]
    /\ log = [not_verified |-> {}, until |-> 0, retry_after |-> 0]

EngineVars == <<tokens, cache, rate_limits, data, now, call, result, issued, log>>

InitClassify ==
    /\ IdleEngine
    /\ input \in Bodies
    /\ output = NoOutput

HandleErrors ==
    /\ ~output.returned
    /\ output' = Output(handle_errors(input))
    /\ UNCHANGED <<EngineVars, input>>

SpecClassify == InitClassify /\ [][HandleErrors]_vars

\* ------------------------------------------- find_codes (104-105, 177-191)
\* A text is a sequence of characters.
links ==
    << <<"d", "i", "s", "c", "o", "r", "d", ".", "g", "i", "f", "t">>,
       <<"d", "i", "s", "c", "o", "r", "d", "a", "p", "p", ".", "c", "o", "m", "/", "g", "i", "f", "t", "s">>,
       <<"d", "i", "s", "c", "o", "r", "d", ".", "c", "o", "m", "/", "g", "i", "f", "t", "s">> >>

\* \w of the pattern, over the characters the texts are written in
WordChars ==
    {"a", "c", "d", "f", "g", "i", "m", "o", "p", "r", "s", "t", "A", "7", "_"}

MinCodeLen == 16
MaxCodeLen == 24

\* One character of a link as the pattern reads it: the links are joined
\* into the pattern unescaped, so their "." is the any-character wildcard.
PatternChar(p, ch) == IF p = "." THEN ch # "\n" ELSE ch = p

\* The link, as a pattern, matches text at position at.
LinkAt(text, at, link) ==
    /\ at + Len(link) - 1 <= Len(text)
    /\ \A n \in 1..Len(link) : PatternChar(link[n], text[at + n - 1])

\* Greedy \w{..24}: the number of word characters from position at, up to most.
RECURSIVE WordRun(_, _, _)
WordRun(text, at, most) ==
    IF most = 0 \/ at > Len(text) \/ text[at] \notin WordChars THEN 0
    ELSE 1 + WordRun(text, at + 1, most - 1)

\* The pattern tried at position at with alternative n on: the index of the
\* last character of the match, or 0.
RECURSIVE MatchAt(_, _, _)
MatchAt(text, at, n) ==
    IF n > Len(links) THEN 0
    ELSE LET slash == at + Len(links[n])
             run == WordRun(text, slash + 1, MaxCodeLen)
         IN IF /\ LinkAt(text, at, links[n])
               /\ slash <= Len(text) /\ text[slash] = "/"
               /\ run >= MinCodeLen
            THEN slash + run
            ELSE MatchAt(text, at, n + 1)

\* gift_re.finditer(text) from position at: the matched substrings in order.
RECURSIVE FindIter(_, _)
FindIter(text, at) ==
    IF at > Len(text) THEN <<>>
    ELSE \* the match end is computed once
         LET e == MatchAt(text, at, 1)
         IN IF e = 0 THEN FindIter(text, at + 1)
            ELSE <<SubSeq(text, at, e)>> \o FindIter(text, e + 1)

\* str.replace(old, ""), from position at
RECURSIVE Remove(_, _, _)
Remove(text, old, at) ==
    IF at > Len(text) THEN <<>>
    ELSE IF at + Len(old) - 1 <= Len(text) /\ SubSeq(text, at, at + Len(old) - 1) = old
    THEN Remove(text, old, at + Len(old))
    ELSE <<text[at]>> \o Remove(text, old, at + 1)

\* remove_links (177-181): the loop over self.links from link n on
RECURSIVE RemoveLinksFrom(_, _)
RemoveLinksFrom(text, n) ==
    IF n > Len(links) THEN text
    ELSE RemoveLinksFrom(Remove(text, links[n] \o <<"/">>, 1), n + 1)

remove_links(text) == RemoveLinksFrom(text, 1)

\* find_codes (183-191)
find_codes(text) ==
    LET matches == FindIter(text, 1)
    IN [n \in 1..Len(matches) |-> remove_links(matches[n])]

\* The texts find_codes is tried on: up to MaxParts pieces, each a link-like
\* prefix followed by "/" and a run of word characters, or a separator.
RECURSIVE Run(_)
Run(n) == IF n = 0 THEN <<>> ELSE <<"A">> \o Run(n - 1)

Prefixes ==
    {links[n] : n \in 1..Len(links)} \cup {<<"d", "i", "s", "c", "o", "r", "d", "-", "g", "i", "f", "t">>}

Pieces ==
    {p \o <<"/">> \o Run(n) :
        p \in Prefixes, n \in {MinCodeLen - 1, MinCodeLen, MaxCodeLen, MaxCodeLen + 1}}
      \cup {<<" ">>, <<"A">>}

RECURSIVE Join(_)
Join(parts) == IF parts = <<>> THEN <<>> ELSE Head(parts) \o Join(Tail(parts))

Texts == {Join(parts) : parts \in UNION {[1..n -> Pieces] : n \in 0..MaxParts}}

InitFind ==
    /\ IdleEngine
    /\ input \in Texts
    /\ output = NoOutput

FindCodes ==
    /\ ~output.returned
    /\ output' = Output(find_codes(input))
    /\ UNCHANGED <<EngineVars, input>>

SpecFind == InitFind /\ [][FindCodes]_vars

\* ----------------------------------------------------------------- claims
Terminal == {ALREADY_CLAIMED, CLAIMED, INVALID_GIFT}
Returned(k) == call[k].pc = "done"
\* invocation k went past the cache test and reserved its code
Reserved(k) == Started(k) /\ result[k].response # IN_CACHE
Last(seq) == seq[Len(seq)]
Range(seq) == {seq[n] : n \in 1..Len(seq)}
\* invocation k posts a request in this step
Posts(k) == Len(issued'[k]) > Len(issued[k])

\* C1: for every code, all requests for it come from the one invocation that
\* reserved it; every other invocation for that code, overlapping or later,
\* returned (None, IN_CACHE) and posted nothing.
C1_SingleAttempter ==
    \A k \in Calls :
       /\ issued[k] # <<>> => Reserved(k)
       /\ Started(k) /\ ~Reserved(k) =>
             \E j \in Calls : j < k /\ Reserved(j) /\ call[j].code = call[k].code
       /\ \A j \in Calls :
             (j # k /\ Reserved(j) /\ Started(k) /\ call[j].code = call[k].code) =>
                /\ Returned(k)
                /\ result[k] = [token |-> None, response |-> IN_CACHE]
                /\ issued[k] = <<>>

\* Two invocations for one code overlap: the first has a request in flight, the
\* second has already returned IN_CACHE.
C1_Witness ==
    \E j, k \in Calls :
       /\ j # k /\ call[j].code = call[k].code
       /\ InFlight(j) /\ issued[j] # <<>>
       /\ Returned(k) /\ result[k].response = IN_CACHE

\* C2: a redeem_code call for a code that is a key of the cache returns
\* (None, IN_CACHE), posts no request, and leaves the cache, the token pool,
\* the rate-limit state and the latency samples as they were.
C2_CacheHitFrame ==
    [][\A k \in Calls :
          (~Started(k) /\ call'[k].pc # "idle" /\ call'[k].code \in DOMAIN cache) =>
             /\ call'[k].pc = "done"
             /\ result'[k] = [token |-> None, response |-> IN_CACHE]
             /\ issued' = issued
             /\ UNCHANGED <<cache, tokens, rate_limits, data>>]_vars

\* A cache hit happened after the engine had recorded an outcome, a latency
\* sample and a rate limit.
C2_Witness ==
    \E k \in Calls :
       /\ result[k] = [token |-> None, response |-> IN_CACHE]
       /\ data # <<>>
       /\ rate_limits.rate_timestamp > 0
       /\ cache[call[k].code] # RATE_LIMITED

\* C3 as stated: no request is posted while the elapsed time since the stored
\* rate-limit timestamp is less than the stored delay, nor before t + d for
\* any rate limit (t, d) recorded so far.
C3_NoRequestBeforeAnyRecordedEnd ==
    [][\A k \in Calls :
          Posts(k) =>
             /\ ~((now - rate_limits.rate_timestamp) < rate_limits.rate_delay)
             /\ ~(now < log.until)]_vars

\* C3 amended: no request is posted while the elapsed time since the stored
\* rate-limit timestamp is less than the stored delay, the stored state being
\* the rate limit recorded last.
C3_NoRequestDuringStoredBackoff ==
    [][\A k \in Calls :
          Posts(k) =>
             /\ ~((now - rate_limits.rate_timestamp) < rate_limits.rate_delay)
             /\ ~((now - rate_limits'.rate_timestamp) < rate_limits'.rate_delay)]_vars

\* A rate limit was recorded, one new call was stopped by it before its first
\* token, and a request was posted once it had elapsed.
C3_Witness ==
    /\ rate_limits.rate_timestamp >= StartTime
    /\ \E k \in Calls :
          /\ Returned(k) /\ Reserved(k) /\ issued[k] = <<>> /\ call[k].snapshot # <<>>
    /\ \E k \in Calls :
          /\ call[k].pc = "await_post"
          /\ call[k].start > rate_limits.rate_timestamp + rate_limits.rate_delay

\* C4: when a request of an invocation is classified ALREADY_CLAIMED, CLAIMED
\* or INVALID_GIFT, the invocation posts no further request and returns the
\* token of that request with that outcome.
C4_TerminalStops ==
    [][\A k \in Calls :
          /\ (call[k].pc = "await_text" /\ call'[k].pc # "await_text"
                /\ cache'[call[k].code] \in Terminal) =>
                /\ call'[k].pc = "done"
                /\ issued'[k] = issued[k]
                /\ result'[k] = [token |-> Last(issued[k]),
                                 response |-> cache'[call[k].code]]
          /\ Returned(k) => (issued'[k] = issued[k] /\ result'[k] = result[k])]_vars

\* An invocation stopped on a terminal outcome with tokens of its snapshot
\* left untried.
C4_Witness ==
    \E k \in Calls :
       /\ Returned(k) /\ result[k].response \in Terminal
       /\ issued[k] # <<>> /\ result[k].token = Last(issued[k])
       /\ Len(issued[k]) < Len(call[k].snapshot)

\* C5: a token whose request was classified NOT_VERIFIED is in the pool in no
\* later state, and no request posted afterwards carries it.
C5_NotVerifiedNeverUsed ==
    [][/\ \A t \in log'.not_verified : ~HasKey(tokens', t)
       /\ \A k \in Calls : Posts(k) => Last(issued'[k]) \notin log'.not_verified]_vars

\* After a token was removed, an invocation that started later, with a
\* snapshot that no longer holds it, has a request in flight.
C5_Witness ==
    \E t \in log.not_verified :
       \E k \in Calls :
          /\ t \notin Range(call[k].snapshot)
          /\ issued[k] # <<>>
          /\ InFlight(k)

\* C6: an invocation that posted at least one request returns the token of
\* the last request it posted.
C6_ReturnsLastUsedToken ==
    \A k \in Calls :
       (Returned(k) /\ issued[k] # <<>>) => result[k].token = Last(issued[k])

\* C7: an invocation for an uncached code that posts no request does so
\* because the pool is empty or backoff is active at its first token; it
\* returns RATE_LIMITED, with token None when the pool is empty.
C7_NoRequestOutcome ==
    [][\A k \in Calls :
          (~Started(k) /\ call'[k].pc # "idle" /\ call'[k].code \notin DOMAIN cache
             /\ issued'[k] = <<>>) =>
             /\ tokens = <<>> \/ (now - rate_limits.rate_timestamp) <= rate_limits.rate_delay
             /\ call'[k].pc = "done"
             /\ result'[k].response = RATE_LIMITED
             /\ tokens = <<>> => result'[k].token = None]_vars

\* An invocation found the pool emptied by NOT_VERIFIED removals and returned
\* (None, RATE_LIMITED) without a request.
C7_Witness ==
    \E k \in Calls :
       /\ Returned(k) /\ Reserved(k) /\ call[k].snapshot = <<>>
       /\ result[k] = [token |-> None, response |-> RATE_LIMITED]
       /\ log.not_verified # {}

\* C10 (safety half): no invocation aborts with an error.
C10_NoCallAborts ==
    \A k \in Calls : call[k].pc # "error"

\* The order of the signature table as the specification lists it.
C8_TableOrder ==
    <<INVALID_GIFT, ALREADY_CLAIMED, NO_PAYMENT_SOURCE, ALREADY_PURCHASED,
      NOT_VERIFIED, RATE_LIMITED, ACCESS_DENIED>>

\* C8: handle_errors returns the outcome of the earliest entry, in the order
\* InvalidGift, AlreadyClaimed, NoPaymentSource, AlreadyPurchased, NotVerified,
\* RateLimited, AccessDenied, whose signature occurs in the text, whatever
\* surrounds it and whichever later signatures occur too; CLAIMED exactly when
\* none occurs; never IN_CACHE; the engine's state is as it was.
C8_EarliestSignatureWins ==
    output.returned =>
       LET found == {n \in 1..Len(error_responses) :
                        StrIn(error_responses[n].error, input)}
       IN /\ Len(error_responses) = Len(C8_TableOrder)
          /\ found = {} <=> output.value = CLAIMED
          /\ found # {} =>
                \E n \in found :
                   /\ \A m \in found : n <= m
                   /\ output.value = C8_TableOrder[n]
          /\ output.value # IN_CACHE
          /\ IdleEngine

\* A text with surrounding noise that holds the first signature and a later
\* one is classified by the first.
C8_Witness ==
    /\ output.returned
    /\ output.value = INVALID_GIFT
    /\ StrIn(error_responses[7].error, input)
    /\ "x" \in Range(input)

\* C9: every entry find_codes returns is a bare code, 16 to 24 word characters
\* with the link prefix and its slash removed, one entry per match in order.
C9_EntriesAreBareCodes ==
    output.returned =>
       /\ Len(output.value) = Len(FindIter(input, 1))
       /\ \A n \in 1..Len(output.value) :
             /\ Len(output.value[n]) \in MinCodeLen..MaxCodeLen
             /\ Range(output.value[n]) \subseteq WordChars

\* invocation k begins in this step, finds its code uncached and a token to try
Attempts(k) ==
    /\ call[k].pc = "idle"
    /\ call'[k].pc # "idle"
    /\ call'[k].code \notin DOMAIN cache
    /\ tokens # <<>>
\* invocation k returns in this step because the backoff test stopped its loop
StopsForBackoff(k) ==
    /\ call[k].pc # "done"
    /\ call'[k].pc = "done"
    /\ call'[k].stop = "backoff"
\* time since the stored rate_timestamp, and the stored delay, as the loop of
\* this step reads them
Elapsed == now - rate_limits'.rate_timestamp
Delay == rate_limits'.rate_delay

\* C11: the loop stops exactly when the elapsed time is strictly less than
\* the stored delay; at elapsed = delay (a delay of 0 read at the instant it
\* was recorded included) the request is issued.
C11_StopsOnlyBelowDelay ==
    [][\A k \in Calls :
          /\ StopsForBackoff(k) => Elapsed < Delay
          /\ Posts(k) => ~(Elapsed < Delay)
          /\ Attempts(k) => (Posts(k) <=> ~(Elapsed < Delay))]_vars

\* invocation k reads the text of its response in this step
Hears(k) == call[k].pc = "await_text" /\ call'[k].pc # "await_text"
\* the classification invocation k reads in this step, as cached for its code
Heard(k) == cache'[call[k].code]
\* invocation k returns in this step because its snapshot has no entry left
Exhausts(k) ==
    /\ call[k].pc # "done"
    /\ call'[k].pc = "done"
    /\ call'[k].stop = "exhausted"

C13_ContinuesWithNextToken ==
    [][\A k \in Calls :
          (/\ Hears(k)
           /\ Heard(k) \in {ALREADY_PURCHASED, ACCESS_DENIED, NOT_VERIFIED}
           /\ call[k].i < Len(call[k].snapshot)
           /\ ~call[k].payment_required
           /\ ~(Elapsed <= Delay))
          => /\ Posts(k)
             /\ Last(issued'[k]) = call[k].snapshot[call[k].i + 1]
             /\ Heard(k) = NOT_VERIFIED => ~HasKey(tokens', call[k].token)]_vars

\* C14: the cache entry of a reserved code is RATE_LIMITED until the first
\* response of the invocation that reserved it, then the classification of
\* the latest response, and at return the returned outcome; only the
\* invocation that reserved a code changes its entry.
C14_CacheFollowsReserver ==
    [][/\ \A k \in Calls :
             /\ (call[k].pc = "idle" /\ call'[k].pc # "idle"
                    /\ call'[k].code \notin DOMAIN cache)
                => cache'[call'[k].code] = RATE_LIMITED
             /\ (call'[k].pc \in {"await_post", "await_text"}
                    /\ call'[k].heard = {})
                => cache'[call'[k].code] = RATE_LIMITED
             /\ (call'[k].pc \in {"await_post", "await_text"}
                    /\ call'[k].heard # {})
                => cache'[call'[k].code] = call'[k].response
             /\ (call'[k].pc = "done" /\ result'[k].response # IN_CACHE)
                => cache'[call'[k].code] = result'[k].response
       /\ \A c \in DOMAIN cache :
             cache'[c] # cache[c]
             => \E k \in Calls : Hears(k) /\ call[k].code = c]_vars

\* An invocation returned ALREADY_CLAIMED after two responses, the entry of
\* its code holds that outcome, and another invocation is still waiting with
\* its own code reserved as RATE_LIMITED.
C14_Witness ==
    \E k, j \in Calls :
       /\ Returned(k)
       /\ Len(issued[k]) = 2
       /\ result[k].response = ALREADY_CLAIMED
       /\ cache[call[k].code] = ALREADY_CLAIMED
       /\ InFlight(j)
       /\ call[j].heard = {}
       /\ cache[call[j].code] = RATE_LIMITED

\* C15: the pool changes only by losing exactly the token whose request was
\* classified NOT_VERIFIED; every other step leaves its tokens, their order
\* and their payment ids as they were, and the pool never grows.
C15_PoolOnlyLosesNotVerified ==
    [][/\ tokens' # tokens
          => \E k \in Calls :
                /\ Hears(k)
                /\ Heard(k) = NOT_VERIFIED
                /\ HasKey(tokens, call[k].token)
                /\ Len(tokens') = Len(tokens) - 1
                /\ tokens' = SelectSeq(tokens, LAMBDA e : e.token # call[k].token)
       /\ \A k \in Calls :
             (Hears(k) /\ Heard(k) = NOT_VERIFIED)
             => ~HasKey(tokens', call[k].token)
       /\ Len(tokens') <= Len(tokens)
       /\ Range(tokens') \subseteq Range(tokens)]_vars

\* The second token of a snapshot was answered NOT_VERIFIED and is gone from
\* the pool; the first token is still there.
C15_Witness ==
    \E k \in Calls :
       /\ Started(k)
       /\ Len(call[k].snapshot) = 2
       /\ log.not_verified = {call[k].snapshot[2]}
       /\ list(tokens) = <<call[k].snapshot[1]>>

\* C16: rate_limits is written only when a response is classified
\* RATE_LIMITED, and then holds the time of that step and the retry_after of
\* that response; every other step leaves it unchanged.
C16_RateLimitsOnlyOnRateLimited ==
    [][/\ rate_limits' # rate_limits
          => \E k \in Calls : Hears(k) /\ Heard(k) = RATE_LIMITED
       /\ \A k \in Calls :
             /\ (Hears(k) /\ Heard(k) = RATE_LIMITED)
                => rate_limits' = [rate_timestamp |-> now,
                                   rate_delay |-> log'.retry_after]
             /\ (Hears(k) /\ Heard(k) # RATE_LIMITED)
                => rate_limits' = rate_limits
             /\ (call[k].pc = "idle" /\ call'[k].pc = "done")
                => rate_limits' = rate_limits]_vars

\* A RATE_LIMITED response with retry_after = 1 was read at time 2 and the
\* invocation returned that outcome.
C16_Witness ==
    /\ rate_limits = [rate_timestamp |-> 2, rate_delay |-> 1]
    /\ log.retry_after = 1
    /\ \E k \in Calls :
          /\ Returned(k)
          /\ result[k].response = RATE_LIMITED
          /\ issued[k] # <<>>

\* C17: the tokens an invocation posts with are a subsequence of the pool's
\* insertion order at the start of the invocation: taken in that order, none
\* twice, and no more of them than the pool had tokens at the start.
C17_IssuedFollowsSnapshot ==
    [][\A k \in Calls :
          /\ (call[k].pc = "idle" /\ call'[k].pc # "idle"
                 /\ call'[k].code \notin DOMAIN cache)
             => call'[k].snapshot = [n \in 1..Len(tokens) |-> tokens[n].token]
          /\ Len(issued'[k]) <= Len(call'[k].snapshot)
          /\ \E pos \in [1..Len(issued'[k]) -> 1..Len(call'[k].snapshot)] :
                /\ \A n \in 1..Len(issued'[k]) :
                      call'[k].snapshot[pos[n]] = issued'[k][n]
                /\ \A n, m \in 1..Len(issued'[k]) : n < m => pos[n] < pos[m]
          /\ \A n, m \in 1..Len(issued'[k]) :
                n # m => issued'[k][n] # issued'[k][m]]_vars

\* An invocation has posted with both tokens of its snapshot, in the order of
\* the pool, after the first was removed from the pool.
C17_Witness ==
    \E k \in Calls :
       /\ Len(call[k].snapshot) = 2
       /\ issued[k] = call[k].snapshot
       /\ ~HasKey(tokens, issued[k][1])
       /\ HasKey(tokens, issued[k][2])

\* the instant at which the stored backoff ends
BackoffEnd(limits) == limits.rate_timestamp + limits.rate_delay

\* C18: the instant at which the backoff ends never moves earlier; a
\* RATE_LIMITED response read while a backoff is in effect does not shorten it.
C18_BackoffEndNeverEarlier ==
    [][BackoffEnd(rate_limits') >= BackoffEnd(rate_limits)]_vars

\* C18 amended: the stored timestamp never moves earlier and the backoff end
\* moves only when a RATE_LIMITED response is read, to the time of that step
\* plus its retry_after, earlier than the end in effect when that sum is
\* less; a RATE_LIMITED response read while a backoff is in effect answers a
\* request posted no later than that backoff was recorded.
C18_BackoffEndFollowsLatest ==
    [][/\ rate_limits'.rate_timestamp >= rate_limits.rate_timestamp
       /\ BackoffEnd(rate_limits') # BackoffEnd(rate_limits)
          => \E k \in Calls :
                /\ Hears(k)
                /\ Heard(k) = RATE_LIMITED
                /\ BackoffEnd(rate_limits') = now + log'.retry_after
       /\ \A k \in Calls :
             (/\ Hears(k)
              /\ Heard(k) = RATE_LIMITED
              /\ (now - rate_limits.rate_timestamp) <= rate_limits.rate_delay)
             => /\ call[k].start <= rate_limits.rate_timestamp
                /\ BackoffEnd(rate_limits') = now + log'.retry_after]_vars

\* A backoff recorded to end at time 3 was overwritten, while in effect, by
\* a RATE_LIMITED response whose retry_after ends earlier.
C18_Witness ==
    /\ log.until = 3
    /\ BackoffEnd(rate_limits) < log.until
    /\ rate_limits.rate_timestamp >= StartTime
    /\ \E j, k \in Calls :
          /\ j # k
          /\ Returned(j) /\ result[j].response = RATE_LIMITED /\ issued[j] # <<>>
          /\ Returned(k) /\ result[k].response = RATE_LIMITED /\ issued[k] # <<>>

\* invocation j reserved its code and returned without a request (backoff
\* or an empty pool), or was stopped by the backoff test after some requests
Blocked(j) ==
    /\ Returned(j)
    /\ result[j].response # IN_CACHE
    /\ issued[j] = <<>> \/ call[j].stop = "backoff"

\* C19: the code of an invocation that made no request, or was stopped by
\* the backoff test, keeps its cache entry and its last recorded outcome for
\* good: every later invocation for it, also one made after the backoff has
\* elapsed, returns (None, IN_CACHE) and posts nothing.
C19_BlockedCodeStaysCached ==
    [][/\ DOMAIN cache \subseteq DOMAIN cache'
       /\ \A j \in Calls :
             Blocked(j) =>
                /\ cache'[call[j].code] = cache[call[j].code]
                /\ cache[call[j].code] = result[j].response
                /\ \A k \in Calls :
                      (/\ call[k].pc = "idle"
                       /\ call'[k].pc # "idle"
                       /\ call'[k].code = call[j].code)
                      => /\ call'[k].pc = "done"
                         /\ result'[k] = [token |-> None, response |-> IN_CACHE]
                         /\ issued'[k] = <<>>
                         /\ ~Posts(k)]_vars

\* An invocation was stopped by the backoff test before its first request;
\* a later invocation for its code, made after that backoff had elapsed,
\* returned (None, IN_CACHE).
C19_Witness ==
    \E j, k \in Calls :
       /\ Blocked(j)
       /\ call[j].stop = "backoff"
       /\ issued[j] = <<>>
       /\ call[j].snapshot # <<>>
       /\ rate_limits.rate_timestamp >= StartTime
       /\ Returned(k)
       /\ call[k].code = call[j].code
       /\ result[k] = [token |-> None, response |-> IN_CACHE]
       /\ call[k].hit_at > BackoffEnd(rate_limits)
       /\ cache[call[j].code] = RATE_LIMITED

====
